---------------------------- MODULE Spec2Model ----------------------------
(***************************************************************************)
(* A model of src/src/buffer.rs: the Buffer wrapper around a driver-level  *)
(* sample buffer, and IntoIter<T>, the strided iterator over one channel's *)
(* samples.                                                                *)
(*                                                                         *)
(* Addresses are byte offsets from the start of the buffer's data region.  *)
(* The driver library behind the ffi:: calls and sys_result() are not in   *)
(* buffer.rs; they are modelled from the documentation in buffer.rs and    *)
(* from the specification, and are marked as such where they are defined.  *)
(***************************************************************************)
EXTENDS Integers, Sequences, FiniteSets, TLC

VARIABLES
    layout,     \* sample size in bytes of each enabled channel, in scan order
    dir,        \* "in" (capture) or "out" (generation) buffer
    buf,        \* the Rust Buffer: [cap, alive]
    drv,        \* the driver-level buffer behind Buffer.buf
    pc,         \* the call the owning thread is blocked in: [op, n]
    ret,        \* what the last driver call returned, as 64 bits
    last,       \* what the last fallible Buffer call returned to its caller
    it,         \* the IntoIter<T> values that exist
    ncancel,    \* number of cancel() calls made so far (saturates at 2)
    wantCancel, \* an external event has asked for the transfer to be cancelled
    ctx         \* the parent context the Buffer.ctx handle refers to

vars == <<layout, dir, buf, drv, pc, ret, last, it, ncancel, wantCancel, ctx>>

---------------------------------------------------------------------------
(* Bounds of the model.                                                    *)

MaxCap == 4

MaxFill == 1

\* Channel layouts of the device the buffer was created for.
Layouts == { <<4>>, <<2, 2>>, <<1, 2>>, <<1, 1, 1>> }

\* size_of::<T>() of the element types channel_iter is instantiated with.
TSizes == {1, 2, 4}

\* Names of the iterators a caller holds at once.
Iters == {1}

\* Places for an iterator; the second is used where two iterators coexist.
Slots == {1, 2}

Fills == 0..MaxFill

---------------------------------------------------------------------------
(* Machine integers.  A pointer-width signed value (ssize_t, 64 bits) is a *)
(* tuple of four 16-bit limbs, least significant first, in two's           *)
(* complement; an i32 / c_int is an integer in -2^31 .. 2^31-1.            *)

W16 == 2^16

H16 == 2^15

\* Sign extension of a small integer to 64 bits.
I64(n) == <<n % W16, (n \div W16) % W16,
            IF n < 0 THEN W16 - 1 ELSE 0, IF n < 0 THEN W16 - 1 ELSE 0>>

\* The sign of a 64-bit value.
IsNeg64(r) == r[4] >= H16

\* `ret as i32`: keeps the low 32 bits, read as a signed number.
AsI32(r) == IF r[2] >= H16 THEN r[1] + W16 * (r[2] - W16) ELSE r[1] + W16 * r[2]

\* `ret as usize`: the same 64 bits, read as an unsigned number.
AsUsize(r) == r

\* `i32::from(ret)` of a c_int.
I32From(r) == r

---------------------------------------------------------------------------
(* Results.                                                                *)

Ok(v) == [ok |-> TRUE, val |-> v, code |-> 0]

Err(c) == [ok |-> FALSE, val |-> <<>>, code |-> c]

NoCall == [op |-> "none", res |-> Ok(<<>>), calls |-> 0]

\* Native error codes of the driver (negated when returned).
EIO == 5

EBADF == 9

EAGAIN == 11

ETIMEDOUT == 110

\* crate::sys_result (not in buffer.rs): a negative driver result is an error carrying the
\* native code, anything else is the given success value.
sys_result(r, result) == IF r < 0 THEN Err(r) ELSE Ok(result)

---------------------------------------------------------------------------
(* The driver-level buffer: layout of the data region.  Not in buffer.rs:   *)
(* from the specification.                                                 *)

AlignUp(x, a) == ((x + a - 1) \div a) * a

RECURSIVE FrameEnd(_, _)
\* End offset, within one frame, of the c-th enabled channel's sample.
FrameEnd(lay, c) ==
    IF c = 0 THEN 0 ELSE AlignUp(FrameEnd(lay, c - 1), lay[c]) + lay[c]

RECURSIVE Largest(_, _)
Largest(lay, c) ==
    IF c = 0 THEN 1
    ELSE LET m == Largest(lay, c - 1) IN IF lay[c] > m THEN lay[c] ELSE m

\* Offset, within one frame, of the c-th enabled channel's sample.
ChanOffset(lay, c) == AlignUp(FrameEnd(lay, c - 1), lay[c])

\* iio_buffer_step: the byte distance between two samples of one channel.
iio_buffer_step(lay) == AlignUp(FrameEnd(lay, Len(lay)), Largest(lay, Len(lay)))

\* iio_buffer_end: the address just past the buffer's data.
iio_buffer_end(lay, cap) == cap * iio_buffer_step(lay)

\* iio_buffer_first: the address of the channel's first sample; the end
\* address for a channel that is not enabled (chan = 0).
iio_buffer_first(lay, cap, chan) ==
    IF chan = 0 THEN iio_buffer_end(lay, cap) ELSE ChanOffset(lay, chan)

Chans == 0..Len(layout)

---------------------------------------------------------------------------
(* The driver-level buffer: operations.  Not in buffer.rs: from its doc    *)
(* comments and the specification.                                         *)

iio_buffer_cancel(d) == [d EXCEPT !.cancelled = TRUE]

iio_buffer_destroy(d) == [d EXCEPT !.destroyed = IF @ < 2 THEN @ + 1 ELSE @]

iio_buffer_set_blocking_mode(d, blocking) == [d EXCEPT !.blocking = blocking]

\* What a transfer of `bytes` bytes can return at once, without blocking:
\* the cancellation error once cancelled; otherwise the bytes moved, an I/O
\* error, or (non-blocking mode, nothing to move) nothing moved.
ImmediateReturns(d, bytes) ==
    IF d.cancelled THEN {-EBADF}
    ELSE {bytes, -EIO} \cup (IF d.blocking THEN {} ELSE {0, -EAGAIN})

\* Whether the transfer may block instead.
MayBlock(d) == ~d.cancelled /\ d.blocking

\* What a blocked transfer returns when it wakes up.
WakeReturns(d, bytes) ==
    IF d.cancelled THEN {-EBADF} ELSE {bytes, -EIO, -ETIMEDOUT}

---------------------------------------------------------------------------
(* Buffer: the wrapper's conversions of a driver result.                   *)

refill(r) == sys_result(AsI32(r), AsUsize(r))

push(r) == sys_result(AsI32(r), AsUsize(r))

push_partial(r) == sys_result(AsI32(r), AsUsize(r))

poll_fd(r) == sys_result(I32From(r), <<r>>)

set_blocking_mode(r) == sys_result(r, <<>>)

\* Faulty variants of cancel: the driver is never told; the region is
\* destroyed instead.
cancel_forgets(d) == d

cancel_destroys(d) == iio_buffer_destroy(d)

cancel(d) == iio_buffer_cancel(d)

\* Faulty variants of drop: the region is destroyed twice; never; the
\* driver is cancelled first.
drop_twice(d) == iio_buffer_destroy(iio_buffer_destroy(d))

drop_leaks(d) == d

drop_cancels(d) == iio_buffer_destroy(iio_buffer_cancel(d))

drop(d) == iio_buffer_destroy(d)

\* The parent context (not in buffer.rs: from the specification): a shared,
\* reference-counted handle.  An owner giving up its reference releases the
\* context's resource when it was the last; `early` records a release made
\* while the buffer's driver region d was not yet destroyed.
ctx_release(c, who, d) ==
    [refs     |-> c.refs - 1,
     handles  |-> IF who = "handle" THEN c.handles - 1 ELSE c.handles,
     released |-> c.refs = 1,
     early    |-> c.early \/ (c.refs = 1 /\ d.destroyed = 0),
     lastOwner |-> IF c.refs = 1 THEN who ELSE c.lastOwner]

\* The Buffer's fields are dropped after Drop::drop has run on driver state d:
\* the ctx field gives up the buffer's reference.
drop_fields(c, d) == ctx_release(c, "buffer", d)

\* Faulty variant of capacity: the size is taken from the length of the data
\* the last transfer left in the buffer.
capacity_of_data ==
    IF last.res.ok /\ last.op \in {"refill", "push", "push_partial"}
    THEN last.res.val[1] \div iio_buffer_step(layout)
    ELSE buf.cap

\* Buffer::capacity: the cap field.
capacity == buf.cap

\* The driver results one call of a wrapper consumes: each wrapper makes its
\* ffi call once and returns what sys_result makes of the result.
Attempts(op, r) == <<r>>

Convert(op, r) ==
    CASE op = "refill" -> refill(r)
      [] op = "push" -> push(r)
      [] op = "push_partial" -> push_partial(r)

Idle == [op |-> "idle", n |-> 0]

NoIter == [live |-> FALSE]

\* Every Buffer method but capacity() and channel_iter() takes &mut self: it
\* runs only while no other call on the buffer is in progress, and only
\* while the buffer has not been dropped.
Exclusive == buf.alive /\ pc.op = "idle"

Bytes(n) == n * iio_buffer_step(layout)

---------------------------------------------------------------------------
(* Buffer: actions.                                                        *)

Init ==
    /\ layout \in Layouts
    /\ dir \in {"in", "out"}
    /\ \E c \in 1..MaxCap : buf = [cap |-> c, alive |-> TRUE]
    /\ \E f \in Fills :
         drv = [cancelled |-> FALSE, blocking |-> TRUE, destroyed |-> 0, fill |-> f]
    /\ pc = Idle
    /\ ret = I64(0)
    /\ last = NoCall
    /\ it = [i \in Slots |-> NoIter]
    /\ ncancel = 0
    /\ wantCancel = FALSE
    /\ ctx = [refs |-> 2, handles |-> 1, released |-> FALSE, early |-> FALSE,
              lastOwner |-> "none"]

\* A transfer's return: the driver result r comes back through the wrapper.
\* A refill that moved data leaves new samples in the buffer's memory.
Return(op, r, f) ==
    /\ ret' = I64(r)
    /\ last' = [op |-> op, res |-> Convert(op, I64(r)),
                calls |-> Len(Attempts(op, I64(r)))]
    /\ drv' = IF op = "refill" /\ r > 0 THEN [drv EXCEPT !.fill = f] ELSE drv
    /\ pc' = Idle

\* A transfer call: it returns at once or leaves the caller blocked.
Call(op, n) ==
    /\ Exclusive
    /\ \/ \E r \in ImmediateReturns(drv, Bytes(n)), f \in Fills : Return(op, r, f)
       \/ /\ MayBlock(drv)
          /\ pc' = [op |-> op, n |-> n]
          /\ UNCHANGED <<ret, last, drv>>
    /\ UNCHANGED <<layout, dir, buf, it, ncancel, wantCancel, ctx>>

Refill == dir = "in" /\ Call("refill", buf.cap)

Push == dir = "out" /\ Call("push", buf.cap)

PushPartial == dir = "out" /\ \E n \in 0..buf.cap : Call("push_partial", n)

\* The driver wakes the blocked call up.
Wake ==
    /\ pc.op # "idle"
    /\ \E r \in WakeReturns(drv, Bytes(pc.n)), f \in Fills : Return(pc.op, r, f)
    /\ UNCHANGED <<layout, dir, buf, it, ncancel, wantCancel, ctx>>

PollFd ==
    /\ Exclusive
    /\ \E r \in {3, -EBADF} :
         /\ ret' = I64(r)
         /\ last' = [op |-> "poll_fd", res |-> poll_fd(r),
                     calls |-> Len(Attempts("poll_fd", I64(r)))]
    /\ UNCHANGED <<layout, dir, buf, drv, pc, it, ncancel, wantCancel, ctx>>

SetBlockingMode ==
    /\ Exclusive
    /\ \E blocking \in BOOLEAN, r \in {0, -EBADF} :
         /\ ret' = I64(r)
         /\ drv' = IF r = 0 THEN iio_buffer_set_blocking_mode(drv, blocking) ELSE drv
         /\ last' = [op |-> "set_blocking_mode", res |-> set_blocking_mode(r),
                     calls |-> Len(Attempts("set_blocking_mode", I64(r)))]
    /\ UNCHANGED <<layout, dir, buf, pc, it, ncancel, wantCancel, ctx>>

Cancel ==
    /\ Exclusive
    /\ drv' = cancel(drv)
    /\ ncancel' = IF ncancel < 2 THEN ncancel + 1 ELSE ncancel
    /\ wantCancel' = FALSE
    /\ UNCHANGED <<layout, dir, buf, pc, ret, last, it, ctx>>

\* The buffer's owning scope ends.
Drop ==
    /\ Exclusive
    /\ drv' = drop(drv)
    /\ buf' = [buf EXCEPT !.alive = FALSE]
    /\ ctx' = drop_fields(ctx, drv')
    /\ UNCHANGED <<layout, dir, pc, ret, last, it, ncancel, wantCancel>>

BufferNext ==
    \/ Refill
    \/ Push
    \/ PushPartial
    \/ Wake
    \/ PollFd
    \/ SetBlockingMode
    \/ Cancel
    \/ Drop

---------------------------------------------------------------------------
(* The buffer's memory.  The c-th enabled channel's k-th sample holds      *)
(* 10*(k+1) + (c-1) + 64*fill, little-endian: a single 4-byte channel      *)
(* holds 10, 20, 30, 40 under fill 0.  Padding, memory outside the data    *)
(* region and memory of a destroyed buffer hold the garbage byte g.        *)

SampleVal(c, k, fill) == 10 * (k + 1) + (c - 1) + 64 * fill

\* The channel whose sample covers frame offset off, or 0 for padding.
ChanAt(lay, off) ==
    LET cs == {c \in 1..Len(lay) :
                 ChanOffset(lay, c) <= off /\ off < ChanOffset(lay, c) + lay[c]}
    IN  IF cs = {} THEN 0 ELSE CHOOSE c \in cs : TRUE

ByteAt(a, g) ==
    LET stride == iio_buffer_step(layout)
        c == ChanAt(layout, a % stride)
    IN  IF buf.alive /\ 0 <= a /\ a < iio_buffer_end(layout, buf.cap) /\ c # 0
        THEN (SampleVal(c, a \div stride, drv.fill)
                \div (256 ^ ((a % stride) - ChanOffset(layout, c)))) % 256
        ELSE g

RECURSIVE Decode(_, _, _)
\* The sz bytes at address a read as a signed little-endian integer.
Decode(a, sz, g) ==
    LET b == ByteAt(a, g)
    IN  IF sz = 1
        THEN IF b >= 128 THEN b - 256 ELSE b
        ELSE b + 256 * Decode(a + 1, sz - 1, g)

\* ptr::read(prev): a bitwise copy of size_of::<T>() bytes at prev.
ptr_read(a, sz) == {Decode(a, sz, g) : g \in {0, 255}}

---------------------------------------------------------------------------
(* IntoIter<T>.  ptr, end and step are the struct's fields and sz is       *)
(* size_of::<T>(); chan, n (values yielded), nones (exhausted calls, up to *)
(* 2), addr and val (address and value of the last read) record what the   *)
(* iterator was made for and what it did.                                  *)

\* Faulty variants of channel_iter: the step is left in bytes; the cursor starts at
\* the start of the buffer instead of the channel's first sample.
channel_iter_byte_step(sz, chan) ==
    [ptr  |-> iio_buffer_first(layout, buf.cap, chan),
     end  |-> iio_buffer_end(layout, buf.cap),
     step |-> iio_buffer_step(layout)]

channel_iter_from_start(sz, chan) ==
    [ptr  |-> 0,
     end  |-> iio_buffer_end(layout, buf.cap),
     step |-> iio_buffer_step(layout) \div sz]

\* Faulty variant of channel_iter: the cursor of the channel is shared, a new
\* iterator resuming where a live one for the same channel stands.
channel_iter_resumes(sz, chan) ==
    LET same == {j \in DOMAIN it : it[j].live /\ it[j].chan = chan}
    IN  [ptr  |-> IF same = {}
                  THEN iio_buffer_first(layout, buf.cap, chan)
                  ELSE it[CHOOSE j \in same : TRUE].ptr,
         end  |-> iio_buffer_end(layout, buf.cap),
         step |-> iio_buffer_step(layout) \div sz]

\* Faulty variant of channel_iter: the end is counted from the channel's
\* first sample instead of being the end of the buffer.
channel_iter_end_per_chan(sz, chan) ==
    [ptr  |-> iio_buffer_first(layout, buf.cap, chan),
     end  |-> iio_buffer_first(layout, buf.cap, chan)
                + buf.cap * iio_buffer_step(layout),
     step |-> iio_buffer_step(layout) \div sz]

channel_iter(sz, chan) ==
    [ptr  |-> iio_buffer_first(layout, buf.cap, chan),
     end  |-> iio_buffer_end(layout, buf.cap),
     step |-> iio_buffer_step(layout) \div sz]

\* Faulty variants of next: the end test is > instead of >=; an exhausted call
\* rewinds the cursor by the length of the buffer.
next_reads_at_end(s, sz) ==
    IF s.ptr > s.end
    THEN [ptr |-> s.ptr, some |-> FALSE, addr |-> -1]
    ELSE [ptr |-> s.ptr + s.step * sz, some |-> TRUE, addr |-> s.ptr]

next_rewinds(s, sz) ==
    IF s.ptr >= s.end
    THEN [ptr |-> s.ptr - s.end, some |-> FALSE, addr |-> -1]
    ELSE [ptr |-> s.ptr + s.step * sz, some |-> TRUE, addr |-> s.ptr]

\* Two more: the cursor advances by one element whatever the step; the value
\* is read after the cursor has advanced.
next_advances_one(s, sz) ==
    IF s.ptr >= s.end
    THEN [ptr |-> s.ptr, some |-> FALSE, addr |-> -1]
    ELSE [ptr |-> s.ptr + sz, some |-> TRUE, addr |-> s.ptr]

next_reads_after_advance(s, sz) ==
    IF s.ptr >= s.end
    THEN [ptr |-> s.ptr, some |-> FALSE, addr |-> -1]
    ELSE [ptr |-> s.ptr + s.step * sz, some |-> TRUE, addr |-> s.ptr + s.step * sz]

\* IntoIter::next on fields s: the new cursor and the address read, if any.
next(s, sz) ==
    IF s.ptr >= s.end
    THEN [ptr |-> s.ptr, some |-> FALSE, addr |-> -1]
    ELSE [ptr |-> s.ptr + s.step * sz, some |-> TRUE, addr |-> s.ptr]

\* channel_iter takes &self: the buffer exists and no &mut call is running.
ChannelIter(i) ==
    /\ Exclusive
    /\ \E sz \in TSizes, chan \in Chans :
         LET s == channel_iter(sz, chan)
         IN  it' = [it EXCEPT ![i] =
                      [live |-> TRUE, ptr |-> s.ptr, end |-> s.end, step |-> s.step,
                       sz |-> sz, chan |-> chan,
                       n |-> 0, nones |-> 0, addr |-> -1, val |-> 0]]
    /\ UNCHANGED <<layout, dir, buf, drv, pc, ret, last, ncancel, wantCancel, ctx>>

\* IntoIter<T> carries no borrow of the buffer: next() can run after the
\* buffer was refilled or dropped.  Buffer and IntoIter<T> hold raw pointers
\* and are neither Send nor Sync: the one thread that owns them calls next()
\* only when it is not blocked in a transfer.
NextCall(i) ==
    /\ it[i].live
    /\ pc.op = "idle"
    /\ LET r == next(it[i], it[i].sz)
       IN  IF r.some
           THEN \E v \in ptr_read(r.addr, it[i].sz) :
                  it' = [it EXCEPT ![i].ptr = r.ptr,
                                   ![i].n = IF @ <= it[i].end THEN @ + 1 ELSE @,
                                   ![i].addr = r.addr,
                                   ![i].val = v]
           ELSE it' = [it EXCEPT ![i].ptr = r.ptr,
                                 ![i].nones = IF @ < 2 THEN @ + 1 ELSE @]
    /\ UNCHANGED <<layout, dir, buf, drv, pc, ret, last, ncancel, wantCancel, ctx>>

IterNext ==
    \/ \E i \in Iters : ChannelIter(i)
    \/ \E i \in Iters : NextCall(i)

---------------------------------------------------------------------------
(* Specifications.                                                         *)

\* The buffer's operations.
Next == BufferNext

Spec == Init /\ [][Next]_vars

\* Iterators over a capture buffer, with the buffer operations that change
\* what an iterator can observe: refill, which rewrites the memory, and the
\* end of the buffer's scope, which releases it.
IterInit == Init /\ dir = "in"

IterStep == IterNext \/ Refill \/ Wake \/ Drop

IterSpec == IterInit /\ [][IterStep]_vars

\* An external event (user input, another flow of control) asks for the
\* buffer's transfers to be cancelled.
WantCancel ==
    /\ buf.alive
    /\ ~wantCancel
    /\ wantCancel' = TRUE
    /\ UNCHANGED <<layout, dir, buf, drv, pc, ret, last, it, ncancel, ctx>>

CancelNext == BufferNext \/ WantCancel

\* cancel() is called as soon as it can be once it is wanted, and the driver
\* wakes a blocked transfer whose buffer has been cancelled.
CancelSpec ==
    /\ Init
    /\ [][CancelNext]_vars
    /\ WF_vars(wantCancel /\ Cancel)
    /\ WF_vars(drv.cancelled /\ Wake)

\* The transfer methods against a driver that may return any pointer-width
\* value.
LimbSamples == {0, 1, H16 - 1, H16, W16 - 1}

SSizeSamples == LimbSamples \X LimbSamples \X LimbSamples \X LimbSamples

Transfers == {"refill", "push", "push_partial"}

AnyReturn(op) ==
    /\ Exclusive
    /\ \E r \in SSizeSamples :
         /\ ret' = r
         /\ last' = [op |-> op, res |-> Convert(op, r),
                     calls |-> Len(Attempts(op, r))]
    /\ UNCHANGED <<layout, dir, buf, drv, pc, it, ncancel, wantCancel, ctx>>

XferNext ==
    \/ dir = "in" /\ AnyReturn("refill")
    \/ dir = "out" /\ AnyReturn("push")
    \/ dir = "out" /\ AnyReturn("push_partial")

\* One buffer of each direction is enough: the conversions read nothing but r.
XferInit == Init /\ layout = <<4>> /\ buf.cap = 1 /\ drv.fill = 0

XferSpec == XferInit /\ [][XferNext]_vars

\* Every operation a caller has on one buffer and one iterator over it.  The
\* operations read the layout and the size only through the iterator's
\* arithmetic, so one two-channel layout of one or two frames stands for all.
AllCaps == {1, 2}

AllInit == Init /\ layout = <<1, 2>> /\ buf.cap \in AllCaps

AllNext == BufferNext \/ IterNext

AllSpec == AllInit /\ [][AllNext]_vars

\* Another owner of the context (the caller's handle, a device) gives up its
\* reference.
DropHandle ==
    /\ ctx.handles > 0
    /\ ctx' = ctx_release(ctx, "handle", drv)
    /\ UNCHANGED <<layout, dir, buf, drv, pc, ret, last, it, ncancel, wantCancel>>

CtxNext == BufferNext \/ DropHandle

CtxSpec == Init /\ [][CtxNext]_vars

\* Two iterators over one capture buffer, each made and advanced in any order.
PairLayouts == { <<2, 2>>, <<1, 2>> }

PairCaps == {1, 2}

PairInit ==
    /\ Init
    /\ dir = "in"
    /\ layout \in PairLayouts
    /\ buf.cap \in PairCaps
    /\ drv.fill = 0

PairNext ==
    \/ \E i \in Slots : ChannelIter(i)
    \/ \E i \in Slots : NextCall(i)

PairSpec == PairInit /\ [][PairNext]_vars

---------------------------------------------------------------------------
(* Claims about the buffer.                                                *)

TransferCall == Refill \/ Push \/ PushPartial

\* C1: once cancel() has been called at least once, every refill(), push()
\* and push_partial(n) call returns at once (the caller is not left blocked)
\* and returns the cancellation error.
C1_TransfersFailAfterCancel ==
    [][(ncancel >= 1 /\ TransferCall)
         => (pc'.op = "idle" /\ last'.res = Err(-EBADF))]_vars

C1_Witness ==
    /\ ncancel = 2
    /\ last.op = "push_partial"
    /\ last.res = Err(-EBADF)

\* C2: a transfer call that is blocked when cancel() is asked for from
\* another flow of control eventually returns, and what it returns is the
\* cancellation error.
C2_BlockedTransferIsCancelled ==
    /\ (pc.op # "idle" /\ wantCancel) ~> (pc.op = "idle")
    /\ [][(pc.op # "idle" /\ wantCancel /\ pc'.op = "idle")
            => last'.res = Err(-EBADF)]_vars

\* C9: a second or later cancel() changes nothing: the buffer, the driver's
\* state and every iterator are as the first cancel() left them, and so is
\* the outcome of every later operation, which is a function of that state.
C9_CancelIdempotent ==
    [][(ncancel >= 1 /\ Cancel)
         => UNCHANGED <<layout, dir, buf, drv, pc, ret, last, it, ctx>>]_vars

C9_Witness == ncancel = 2 /\ drv.cancelled /\ drv.destroyed = 0

\* C10: a transfer returns success carrying exactly r for every non-negative
\* pointer-width r the driver returns, and an error carrying the native code
\* r for every negative r.
C10_TransferResultExact ==
    last.op \in Transfers =>
        IF IsNeg64(ret)
        THEN ~last.res.ok /\ I64(last.res.code) = ret
        ELSE last.res = Ok(ret)


---------------------------------------------------------------------------
(* Claims about the iterator.                                              *)

Stride == iio_buffer_step(layout)

\* The byte stride is a whole number S of elements of T.
ExactStride(i) == Stride % it[i].sz = 0

\* The number of samples of the iterator's channel the buffer holds.
Samples(i) == IF it[i].chan = 0 THEN 0 ELSE buf.cap

\* The call next() on iterator i yields a value / reports exhaustion.
Yields(i) == it[i].live /\ it[i].ptr < it[i].end /\ NextCall(i)

Exhausted(i) == it[i].live /\ it[i].ptr >= it[i].end /\ NextCall(i)

\* The value the k-th sample of channel c decodes to as a sz-byte integer.
ExpectedVal(c, k, sz) ==
    LET v == SampleVal(c, k, drv.fill)
    IN  IF sz = 1 /\ v >= 128 THEN v - 256 ELSE v

\* C3: over N samples of the channel, with the stride a whole number of
\* elements of T, the first N calls to next() yield (the cursor is below
\* end while fewer than N values were yielded) and the (N+1)-th reports
\* exhaustion (the cursor is at or past end once N were yielded).
C3_ExactlyNYields ==
    \A i \in Iters :
        (it[i].live /\ ExactStride(i)) =>
            /\ it[i].n <= Samples(i)
            /\ (it[i].n < Samples(i) => it[i].ptr < it[i].end)
            /\ (it[i].n = Samples(i) => it[i].ptr >= it[i].end)
            /\ (it[i].nones > 0 => it[i].n = Samples(i))

C3_Witness ==
    \E i \in Iters :
        /\ it[i].live /\ ExactStride(i)
        /\ it[i].chan = 2 /\ it[i].sz = 2
        /\ buf.cap = MaxCap
        /\ it[i].n = buf.cap /\ it[i].nones = 1

\* C4: in every iterator state, cursor <= end.
C4_CursorNeverPastEnd ==
    \A i \in Iters : it[i].live => it[i].ptr <= it[i].end

\* C5: every next() that yields read its value at an address below end (the
\* cursor it was called with), and every next() called with the cursor at or
\* past end reads nothing.
C5_NoReadAtOrPastEnd ==
    [][\A i \in Iters :
         /\ (it[i].live /\ it'[i].n > it[i].n /\ NextCall(i))
              => (it'[i].addr = it[i].ptr /\ it'[i].addr < it[i].end)
         /\ Exhausted(i)
              => (it'[i].n = it[i].n /\ it'[i].addr = it[i].addr
                    /\ it'[i].val = it[i].val)]_vars

C5_Witness ==
    \E i \in Iters :
        /\ it[i].live /\ it[i].nones = 2
        /\ it[i].addr >= 0 /\ it[i].addr + it[i].sz = it[i].end

\* C6: with the stride a whole number S of elements of T, the k-th value the
\* iterator for channel A yields is read at A's first sample plus k strides,
\* never at a sample position of another enabled channel B, and (T being
\* A's sample type) it is the value of A's k-th sample: 10, 20, ... for a
\* single 4-byte channel.  Only an enabled channel yields anything.
C6_Deinterleaving ==
    [][\A i \in Iters :
         (buf.alive /\ it[i].live /\ ExactStride(i)
            /\ it'[i].n = it[i].n + 1 /\ Yields(i))
           => LET a == it[i].chan
                  k == it[i].n
              IN  /\ a \in 1..Len(layout)
                  /\ it'[i].addr = ChanOffset(layout, a) + k * Stride
                  /\ \A b \in 1..Len(layout) : \A j \in 0..(buf.cap - 1) :
                       b # a => it'[i].addr # ChanOffset(layout, b) + j * Stride
                  /\ it[i].sz = layout[a]
                       => it'[i].val = ExpectedVal(a, k, it[i].sz)]_vars

C6_Witness ==
    \E i \in Iters :
        /\ it[i].live /\ buf.alive /\ drv.fill = 0
        /\ layout = <<2, 2>> /\ it[i].chan = 2 /\ it[i].sz = 2
        /\ buf.cap = 4 /\ it[i].n = 4 /\ it[i].val = 41 /\ it[i].nones = 1

\* C7: every iterator is finite: a call that yields moves the cursor
\* strictly towards end, so that exhaustion is reached after at most
\* end - cursor calls.
C7_AlwaysFinite ==
    [][\A i \in Iters : Yields(i) => it'[i].ptr > it[i].ptr]_vars

\* C8: once next() has reported exhaustion, every later call reports
\* exhaustion too and leaves cursor, end and step as they were.
C8_NotRestartable ==
    [][\A i \in Iters :
         (it[i].live /\ it[i].nones >= 1 /\ NextCall(i))
           => /\ it'[i].nones >= 1
              /\ it'[i].n = it[i].n
              /\ it'[i].ptr >= it'[i].end
              /\ it'[i].ptr = it[i].ptr
              /\ it'[i].end = it[i].end
              /\ it'[i].step = it[i].step]_vars

C8_Witness ==
    \E i \in Iters : it[i].live /\ it[i].nones = 2 /\ it[i].n = buf.cap

BufferOp == BufferNext \/ \E i \in Iters : ChannelIter(i)

\* C12: the driver's region is released exactly once, when the buffer's scope
\* ends: the destroy operation has run once exactly when the buffer is gone,
\* never twice, only the end of the scope runs it, whatever transfers failed
\* or cancel() calls came before, and no operation of the buffer runs after it.
C12_ReleasedExactlyOnce ==
    /\ [](drv.destroyed = IF buf.alive THEN 0 ELSE 1)
    /\ [][drv'.destroyed # drv.destroyed => Drop]_vars
    /\ [][~buf.alive => ~BufferOp]_vars

C12_Witness ==
    /\ ~buf.alive
    /\ drv.destroyed = 1
    /\ ncancel >= 1
    /\ last.op \in Transfers
    /\ ~last.res.ok

\* C13: capacity() returns the value the buffer was created with in every
\* reachable state: no step of poll_fd, set_blocking_mode, refill, push,
\* push_partial, cancel or channel_iter, succeeding or failing, changes what
\* it returns.
C13_CapacityConstant == [][capacity' = capacity]_vars

C13_Witness ==
    /\ capacity = 2
    /\ last.op = "push_partial"
    /\ last.res = Ok(I64(0))
    /\ ncancel >= 1
    /\ \E i \in Iters : it[i].live

\* C14: the buffer's active/cancelled state changes only in a cancel() call
\* and only from active to cancelled: no step of capacity, poll_fd,
\* set_blocking_mode, refill, push, push_partial, channel_iter or next(),
\* succeeding or failing, changes it, and nothing moves a cancelled buffer
\* back to active.
C14_OnlyCancelCancels ==
    [][drv'.cancelled # drv.cancelled
         => (Cancel /\ ~drv.cancelled /\ drv'.cancelled)]_vars

C14_Witness ==
    /\ buf.alive
    /\ drv.cancelled
    /\ ncancel = 2
    /\ last.op = "set_blocking_mode"
    /\ last.res.ok
    /\ \E i \in Iters : it[i].live /\ it[i].n >= 1

\* C15: a buffer keeps its parent context alive: while the buffer exists the
\* context's resource is not released; it is released only when its last
\* owner (buffer or other handle) has gone, and never while the buffer's
\* driver region is still to be destroyed, so a buffer that is the last owner
\* destroys its region first.
C15_ContextOutlivesBuffer ==
    /\ buf.alive => ~ctx.released
    /\ ctx.released <=> ctx.refs = 0
    /\ ~ctx.early

C15_Witness ==
    /\ ctx.released
    /\ ctx.lastOwner = "buffer"
    /\ drv.destroyed = 1

\* The iterator has been made and not yet advanced.
Fresh(i) == it[i].live /\ it[i].n = 0 /\ it[i].nones = 0

\* C16: two iterators over the same buffer, for channels A and B, have
\* independent cursors and the same end: each starts at the first sample of
\* its own channel (different addresses for different enabled channels),
\* their ends are equal, and a next() on one leaves the cursor, end and step
\* of the other as they were, in every interleaving of their next() calls.
C16_IndependentCursors ==
    /\ [](\A i \in Slots :
            Fresh(i) => it[i].ptr = iio_buffer_first(layout, buf.cap, it[i].chan))
    /\ []((Fresh(1) /\ Fresh(2) /\ it[1].chan # it[2].chan
             /\ it[1].chan # 0 /\ it[2].chan # 0)
            => it[1].ptr # it[2].ptr)
    /\ []((it[1].live /\ it[2].live) => it[1].end = it[2].end)
    /\ [][\A i, j \in Slots :
            (i # j /\ it[i].live /\ it'[i] # it[i] /\ NextCall(i))
              => it'[j] = it[j]]_vars

C16_Witness ==
    /\ it[1].live /\ it[2].live
    /\ it[1].chan = 1 /\ it[2].chan = 2
    /\ it[1].sz = layout[1] /\ it[2].sz = layout[2]
    /\ it[1].n = 2 /\ it[2].n = 1
    /\ it[1].ptr # it[2].ptr

\* C17: a next() that yields a value advances the cursor by exactly step
\* elements of T, step being the byte stride divided by size_of(T), and the
\* value it yields is the one that was at the cursor before the advance; no
\* next(), yielding or not, changes end or step.
C17_AdvanceByStep ==
    /\ [](\A i \in Iters : it[i].live => it[i].step = Stride \div it[i].sz)
    /\ [][\A i \in Iters :
            (it[i].live /\ it'[i] # it[i] /\ NextCall(i))
              => /\ it'[i].end = it[i].end
                 /\ it'[i].step = it[i].step
                 /\ it[i].ptr < it[i].end
                      => /\ it'[i].ptr = it[i].ptr + it[i].step * it[i].sz
                         /\ it'[i].addr = it[i].ptr
                         /\ it'[i].val \in ptr_read(it[i].ptr, it[i].sz)]_vars

C17_Witness ==
    \E i \in Iters :
        /\ it[i].live
        /\ buf.alive
        /\ layout = <<2, 2>>
        /\ it[i].chan = 2 /\ it[i].sz = 2
        /\ it[i].step = 2
        /\ it[i].n = 2
        /\ it[i].addr = 6
        /\ it[i].ptr = 10
        /\ it[i].val = ExpectedVal(2, 1, 2)

\* T has the size of the iterator's channel's samples.
MatchedT(i) == it[i].chan # 0 /\ it[i].sz = layout[it[i].chan]

\* C19: when size_of(T) is the channel's sample size and the byte stride is
\* a multiple of it, every value next() yields is read from size_of(T) bytes
\* that lie inside the data region, from the channel's first sample to the
\* end address: the test cursor < end is enough for every channel offset.
C19_ReadsInBounds ==
    [][\A i \in Iters :
         (it[i].live /\ MatchedT(i) /\ ExactStride(i)
            /\ it[i].ptr < it[i].end /\ NextCall(i))
           => /\ iio_buffer_first(layout, buf.cap, it[i].chan) <= it'[i].addr
              /\ it'[i].addr + it[i].sz <= it[i].end]_vars

C19_Witness ==
    \E i \in Iters :
        /\ it[i].live
        /\ layout = <<1, 2>>
        /\ MatchedT(i)
        /\ it[i].chan = 2
        /\ it[i].n = buf.cap
        /\ it[i].addr + it[i].sz = it[i].end
        /\ it[i].nones >= 1

\* The bytes a read of sz bytes at address a returns are fixed by the
\* buffer's data (no padding, nothing outside the region).
Determined(a, sz) == Cardinality(ptr_read(a, sz)) = 1

\* C18: iteration is read-only and repeatable: no channel_iter or next()
\* step changes the buffer's memory, capacity or active/cancelled state, so
\* two iterators made for the same channel and type with no refill or push
\* in between, in whatever order they are made and advanced, stand at the
\* same cursor after the same number of values and have yielded the same
\* value from the same address.
C18_ReadOnlyRepeatable ==
    /\ [][(\E i \in Slots : it'[i] # it[i]) => UNCHANGED <<layout, buf, drv>>]_vars
    /\ []((it[1].live /\ it[2].live
             /\ it[1].chan = it[2].chan /\ it[1].sz = it[2].sz
             /\ it[1].n = it[2].n)
            => /\ it[1].ptr = it[2].ptr
               /\ it[1].end = it[2].end
               /\ it[1].step = it[2].step
               /\ it[1].addr = it[2].addr
               /\ (it[1].n >= 1 /\ Determined(it[1].addr, it[1].sz))
                    => it[1].val = it[2].val)

C18_Witness ==
    /\ it[1].live /\ it[2].live
    /\ it[1].chan = 2 /\ it[2].chan = 2
    /\ it[1].sz = 2 /\ it[2].sz = 2
    /\ buf.cap = 2
    /\ it[1].n = 2 /\ it[1].nones = 1
    /\ it[2].n = 2
    /\ it[2].val = ExpectedVal(2, 1, 2)

=============================================================================
